---- MODULE Spec2Model ----
(***************************************************************************)
(* The weather dashboard's view-model: the React state of App and the      *)
(* asynchronous fetchWeather cycles that write it.                          *)
(*                                                                          *)
(* The repository holds three versions of App:                              *)
(*   "hourly"  src/unnamed/part_001            geocode -> forecast (+hourly) *)
(*   "geo"     src/unnamed/part_000 l.332-636  geocode -> forecast           *)
(*   "single"  src/unnamed/part_000 l.1-331    weather -> forecast, one host *)
(* The variable variant says which one runs; it never changes.              *)
(*                                                                          *)
(* JavaScript runs a handler to its next await without interruption, so one *)
(* action is the code between two awaits of one fetchWeather call (or one   *)
(* whole event handler).  The state updates made inside such a run are      *)
(* committed together.  What a request returns is the environment's choice. *)
(***************************************************************************)
EXTENDS Integers, Sequences, FiniteSets, TLC

\* Bound on the number of fetchWeather calls (the mount effect plus submits).
MaxCalls == 2

\* Celsius values convertTemp is applied to: -MaxTemp .. MaxTemp.
MaxTemp == 100

\* Longest hourly series a weather body carries.
MaxHours == 3

\* Temperatures a weather body reports, in tenths: -MaxTenths .. MaxTenths.
MaxTenths == 250

Variants == {"hourly", "geo", "single"}
TwoProvider == {"hourly", "geo"}

\* The city names the user can type; "" is the empty search text.
Cities == {"Toronto", "London"}
Texts == Cities \cup {""}

\* Non-2xx statuses a provider can answer with (response.ok is false).
Statuses == {404, 500}

\* useState<Weather | null>(null)
Null == [null |-> TRUE]

\* useState<'C' | 'F'>('C')
Units == {"C", "F"}

\* No value: undefined in the program, no argument or no result below.
None == << >>

VARIABLES
    variant,      \* which version of App runs
    mounted,      \* the mount effect (useEffect(..., [])) has run
    searchCity,   \* useState: the search text (city in the single variant)
    weather,      \* useState: the snapshot, or Null
    forecast,     \* useState: the forecast list (single variant only)
    loading,      \* useState
    error,        \* useState: "" or the banner's message
    lastUpdated,  \* useState: 0 for '', else the stamp of the cycle that wrote it
    cycles,       \* the fetchWeather calls made so far, in call order
    inflight,     \* the requests issued and not yet answered: <<cycle, kind>>
    issued,       \* number of fetch() calls made so far
    unit,         \* useState: the unit temperatures are shown in
    args,         \* the arguments of a function applied on its own, or None
    result        \* <<its result>>, or None before it is applied

\* The state of App and of its fetchWeather calls, but for unit.
app == <<variant, mounted, searchCity, weather, forecast, loading, error,
         lastUpdated, cycles, inflight, issued>>

vars == <<app, unit, args, result>>

view == <<weather, forecast, loading, error, lastUpdated>>

----------------------------------------------------------------------------
\* Message texts.

StatusText(s) == CASE s = 404 -> "404" [] s = 500 -> "500"

\* `City not found (${geocodingResponse.status})`
CityNotFoundStatus(s) == "City not found (" \o StatusText(s) \o ")"

CityNotFoundInResults == "City not found in geocoding results"

\* `Failed to fetch weather data (${weatherResponse.status})`
FailedWeatherStatus(s) == "Failed to fetch weather data (" \o StatusText(s) \o ")"

\* err.message of the exceptions the platform raises: fetch() rejecting, a body
\* that cannot be read or parsed, a property read on undefined.
NetworkErrorText == "Failed to fetch"
SyntaxErrorText == "Unexpected token < in JSON at position 0"
TypeErrorText == "Cannot read properties of undefined"

\* The fallback of the catch for a thrown value that is no Error.
AnErrorOccurred == "An error occurred"

\* A thrown value: new Error(message) and the platform's exceptions are
\* instances of Error.
Error(message) == [isError |-> TRUE, message |-> message]

----------------------------------------------------------------------------
\* The cycles.

InFlight(i) == cycles[i].pc # "done"
Running == {i \in DOMAIN cycles : InFlight(i)}

\* A fetchWeather call: its argument, where it is suspended ("done" once it
\* has returned), its locals (status, location), and what it has done so far
\* (issued1/issued2: requests issued at the first/second network step, ok1:
\* the first response had response.ok, found: length of the result list read,
\* outcome, startedWhile: the cycles in flight when it started).
NewCycle(city, pc) ==
    [city |-> city, pc |-> pc, status |-> 0, location |-> "",
     issued1 |-> 1, issued2 |-> 0, ok1 |-> FALSE, found |-> -1,
     outcome |-> "none", startedWhile |-> Running]

\* A call that returned at the guard (if (!city) return).
Skipped(city) ==
    [NewCycle(city, "done") EXCEPT !.issued1 = 0, !.outcome = "skipped"]

\* useState initial values: 'Toronto' in part_001, 'London' in part_000.
InitialCity(v) == IF v = "hourly" THEN "Toronto" ELSE "London"

\* The state after construction: the useState initial values, no call made.
Constructed ==
    /\ variant \in Variants
    /\ mounted = FALSE
    /\ searchCity = InitialCity(variant)
    /\ weather = Null
    /\ forecast = << >>
    /\ loading = FALSE
    /\ error = ""
    /\ lastUpdated = 0
    /\ cycles = << >>
    /\ inflight = {}
    /\ issued = 0

Init ==
    /\ Constructed
    /\ unit = "C"
    /\ args = None
    /\ result = None

----------------------------------------------------------------------------
\* What the providers can answer.

\* The geocoder's body for a city: without a results field, with an empty
\* list, or with candidates of which the first is the city asked for.
GeocodingData(city) ==
    {[hasResults |-> FALSE, results |-> << >>]} \cup
    {[hasResults |-> TRUE, results |-> r] :
        r \in {<< >>, <<city>>} \cup {<<city, other>> : other \in Cities \ {city}}}

\* !geocodingData.results?.length
NoResults(geocodingData) ==
    ~geocodingData.hasResults \/ Len(geocodingData.results) = 0

\* fetch(url) is called; later its promise settles.
Issue(i, kind) ==
    /\ inflight' = inflight \cup {<<i, kind>>}
    /\ issued' = issued + 1
Answer(i, kind) ==
    /\ inflight' = inflight \ {<<i, kind>>}
    /\ UNCHANGED issued
NoFetch == UNCHANGED <<inflight, issued>>

Step(i, pc) ==
    /\ cycles' = [cycles EXCEPT ![i].pc = pc]
    /\ UNCHANGED view

\* The call returns: its record keeps how it ended.
Ends(i, outcome) ==
    cycles' = [cycles EXCEPT ![i].pc = "done", ![i].outcome = outcome]

----------------------------------------------------------------------------
\* Numbers.  The providers report temperature and humidity as decimal numbers.
\* A number the program has not rounded is kept in tenths (21.4 is 214), a
\* rounded one is the integer it is.

\* Math.floor where the program has Math.round.
MathFloor(tenths) == tenths \div 10

\* Math.round: the nearest integer, the larger one of two equally near
\* (\div rounds down, so 25 gives 3 and -25 gives -2, as 2.5 and -2.5 do).
MathRound(tenths) == (tenths + 5) \div 10

\* part_001 lines 152-157: the first test that holds decides.
getWeatherDescription(temp, humidity) ==
    IF humidity > 800 THEN "Overcast Clouds"
    ELSE IF temp > 300 THEN "Clear Sky"
    ELSE IF temp < 100 THEN "Few Clouds"
    ELSE "Scattered Clouds"

\* part_000 lines 432-437.
getWeatherDescriptionGeo(temp, humidity) ==
    IF humidity > 800 THEN "Humid"
    ELSE IF temp > 300 THEN "Hot"
    ELSE IF temp < 100 THEN "Cold"
    ELSE "Moderate"

\* An icon chosen with >= 30 where the description has > 30.
getIconCodeFrom30(temp, humidity) ==
    IF humidity > 800 THEN "09d"
    ELSE IF temp >= 300 THEN "01d"
    ELSE IF temp < 100 THEN "13d"
    ELSE "02d"

\* part_000 lines 440-445.
getIconCode(temp, humidity) ==
    IF humidity > 800 THEN "09d"
    ELSE IF temp > 300 THEN "01d"
    ELSE IF temp < 100 THEN "13d"
    ELSE "02d"

\* Fahrenheit by Math.floor.
convertTempFloor(temp) ==
    IF unit = "F" THEN MathFloor(temp * 18 + 320) ELSE temp

\* part_001 lines 159-164: temp is a stored (whole) Celsius value, and
\* (temp * 9/5) + 32 is 18 * temp + 320 tenths.  Its fraction is one of
\* .0 .2 .4 .6 .8, so the floating-point value rounds as the exact one does.
convertTemp(temp) ==
    IF unit = "F" THEN MathRound(temp * 18 + 320) ELSE temp

\* part_000 lines 115-120 and 458-463: the unit is an argument.
convertTempTo(temp, to) ==
    IF to = "F" THEN MathRound(temp * 18 + 320) ELSE temp

\* The Open-Meteo body for a location: the current block and entry 0 of the
\* daily block, in tenths.
WeatherData(location) ==
    IF location = "Toronto"
    THEN [temperature_2m |-> 214, apparent_temperature |-> 198,
          relative_humidity_2m |-> 650,
          temperature_2m_min |-> 155, temperature_2m_max |-> 236]
    ELSE [temperature_2m |-> -25, apparent_temperature |-> -68,
          relative_humidity_2m |-> 855,
          temperature_2m_min |-> -45, temperature_2m_max |-> 304]

\* part_001 lines 125-140: the snapshot of cycle i.  The description is
\* computed from the numbers as received.
MapWeather(location, data, i) ==
    [city |-> location, cycle |-> i,
     temp |-> MathRound(data.temperature_2m),
     feelsLike |-> MathRound(data.apparent_temperature),
     tempMin |-> MathRound(data.temperature_2m_min),
     tempMax |-> MathRound(data.temperature_2m_max),
     humidity |-> MathRound(data.relative_humidity_2m),
     description |-> getWeatherDescription(data.temperature_2m,
                                           data.relative_humidity_2m)]

\* part_001 lines 118-123: one day of the forecast list, from the day's
\* maximum temperature and maximum humidity.
MapForecastDay(temperature_2m_max, relative_humidity_2m_max) ==
    [temp |-> MathRound(temperature_2m_max),
     description |-> getWeatherDescription(temperature_2m_max,
                                           relative_humidity_2m_max),
     humidity |-> MathRound(relative_humidity_2m_max)]

\* part_000 lines 405-420: humidity is stored as received.
MapWeatherGeo(location, data, i) ==
    [city |-> location, cycle |-> i,
     temp |-> MathRound(data.temperature_2m),
     feelsLike |-> MathRound(data.apparent_temperature),
     tempMin |-> MathRound(data.temperature_2m_min),
     tempMax |-> MathRound(data.temperature_2m_max),
     humidity |-> data.relative_humidity_2m,
     description |-> getWeatherDescriptionGeo(data.temperature_2m,
                                              data.relative_humidity_2m),
     icon |-> getIconCode(data.temperature_2m, data.relative_humidity_2m)]

\* toLocaleString('en-US', {month, day, hour, minute}) of an hourly time, a
\* whole hour counted from the start of the month: "Nov 1 23:00" for 23,
\* "Nov 2 00:00" for 24.
FormatTime(hour) == [day |-> hour \div 24 + 1, hour |-> hour % 24]

\* An hourly series that keeps the entry of the present hour.
HourlyDataFromNow(hourly, now) ==
    LET item(index) ==
            [time |-> FormatTime(hourly.time[index]),
             temp |-> MathRound(hourly.temperature_2m[index]),
             feelsLike |-> MathRound(hourly.apparent_temperature[index]),
             timestamp |-> hourly.time[index]]
        items == [index \in DOMAIN hourly.time |-> item(index)]
        later(it) == it.timestamp >= now
        kept == SelectSeq(items, later)
    IN  [j \in DOMAIN kept |->
            [time |-> kept[j].time, temp |-> kept[j].temp,
             feelsLike |-> kept[j].feelsLike]]

\* part_001 lines 94-115: map every hourly time with the numbers at its
\* index, keep the items after now, drop the timestamp.
HourlyData(hourly, now) ==
    LET item(index) ==
            [time |-> FormatTime(hourly.time[index]),
             temp |-> MathRound(hourly.temperature_2m[index]),
             feelsLike |-> MathRound(hourly.apparent_temperature[index]),
             timestamp |-> hourly.time[index]]
        items == [index \in DOMAIN hourly.time |-> item(index)]
        later(it) == it.timestamp > now
        kept == SelectSeq(items, later)
    IN  [j \in DOMAIN kept |->
            [time |-> kept[j].time, temp |-> kept[j].temp,
             feelsLike |-> kept[j].feelsLike]]

\* config.ts.  A value that may be undefined is None or <<the string>>.

\* if (value): undefined and the empty string are falsy.
Truthy(value) == value # None /\ value # <<"">>

\* A resolver that asks the build-time environment first.
getApiKeyBuildFirst(env, buildTimeKey) ==
    LET runtimeKey == IF env = None THEN None ELSE env[1]
    IN  IF Truthy(buildTimeKey) THEN [key |-> buildTimeKey, warned |-> FALSE]
        ELSE [key |-> runtimeKey, warned |-> ~Truthy(runtimeKey)]

\* config.ts lines 2-15: env is window._env_ (None, or <<the value of its
\* VITE_WEATHER_API_KEY>>), buildTimeKey the value of
\* import.meta.env.VITE_WEATHER_API_KEY; warned tells whether console.warn
\* was called.
getApiKey(env, buildTimeKey) ==
    LET runtimeKey == IF env = None THEN None ELSE env[1]
    IN  IF Truthy(runtimeKey) THEN [key |-> runtimeKey, warned |-> FALSE]
        ELSE [key |-> buildTimeKey, warned |-> ~Truthy(buildTimeKey)]

\* The OpenWeatherMap body for a city: its main block, in tenths, and the
\* description of weather[0].
WeatherDataSingle(city) ==
    IF city = "Toronto"
    THEN [temp |-> 214, feels_like |-> 198, temp_min |-> 155, temp_max |-> 236,
          humidity |-> 650, description |-> "broken clouds"]
    ELSE [temp |-> -25, feels_like |-> -68, temp_min |-> -45, temp_max |-> 304,
          humidity |-> 855, description |-> "light rain"]

\* part_000 lines 56-71: humidity and description are stored as received.
MapWeatherSingle(city, data, i) ==
    [city |-> city, cycle |-> i,
     temp |-> MathRound(data.temp),
     feelsLike |-> MathRound(data.feels_like),
     tempMin |-> MathRound(data.temp_min),
     tempMax |-> MathRound(data.temp_max),
     humidity |-> data.humidity,
     description |-> data.description]

----------------------------------------------------------------------------
\* part_001 ("hourly"): fetchWeather, one action per run between two awaits.

\* FetchWeather aborting the cycles still in flight before it starts its own.
FetchWeatherAborting(city) ==
    IF city = ""
    THEN /\ cycles' = Append(cycles, Skipped(city))
         /\ NoFetch
         /\ UNCHANGED view
    ELSE /\ loading' = TRUE
         /\ error' = ""
         /\ cycles' = Append([i \in DOMAIN cycles |->
                                 IF InFlight(i)
                                 THEN [cycles[i] EXCEPT !.pc = "done",
                                                        !.outcome = "aborted"]
                                 ELSE cycles[i]],
                             [NewCycle(city, "awaitGeocoding")
                                 EXCEPT !.startedWhile = {}])
         /\ inflight' = {<<Len(cycles) + 1, "geocoding">>}
         /\ issued' = issued + 1
         /\ UNCHANGED <<weather, forecast, lastUpdated>>

\* FetchWeather without setError('').
FetchWeatherKeepsError(city) ==
    IF city = ""
    THEN /\ cycles' = Append(cycles, Skipped(city))
         /\ NoFetch
         /\ UNCHANGED view
    ELSE /\ loading' = TRUE
         /\ cycles' = Append(cycles, NewCycle(city, "awaitGeocoding"))
         /\ Issue(Len(cycles) + 1, "geocoding")
         /\ UNCHANGED <<weather, forecast, lastUpdated, error>>

\* FetchWeather without the guard on its argument.
FetchWeatherNoGuard(city) ==
    /\ loading' = TRUE
    /\ error' = ""
    /\ cycles' = Append(cycles, NewCycle(city, "awaitGeocoding"))
    /\ Issue(Len(cycles) + 1, "geocoding")
    /\ UNCHANGED <<weather, forecast, lastUpdated>>

\* Lines 50-61: the guard, setLoading(true), setError(''), the geocoding fetch.
FetchWeather(city) ==
    IF city = ""
    THEN /\ cycles' = Append(cycles, Skipped(city))
         /\ NoFetch
         /\ UNCHANGED view
    ELSE /\ loading' = TRUE
         /\ error' = ""
         /\ cycles' = Append(cycles, NewCycle(city, "awaitGeocoding"))
         /\ Issue(Len(cycles) + 1, "geocoding")
         /\ UNCHANGED <<weather, forecast, lastUpdated>>

\* Catch without setWeather(null).
CatchKeepsSnapshot(err) ==
    /\ error' = IF err.isError THEN err.message ELSE AnErrorOccurred
    /\ loading' = FALSE
    /\ UNCHANGED <<weather, forecast, lastUpdated>>

\* Catch showing the fallback message for every thrown value.
CatchGeneric(err) ==
    /\ error' = AnErrorOccurred
    /\ weather' = Null
    /\ loading' = FALSE
    /\ UNCHANGED <<forecast, lastUpdated>>

\* Lines 143-149: catch (setError(err.message), setWeather(null)) and finally.
Catch(err) ==
    /\ error' = IF err.isError THEN err.message ELSE AnErrorOccurred
    /\ weather' = Null
    /\ loading' = FALSE
    /\ UNCHANGED <<forecast, lastUpdated>>

\* GeocodingResponse without the throw on a non-2xx status: the error body is
\* parsed like a result.
GeocodingResponseNoThrow(i) ==
    /\ variant = "hourly"
    /\ cycles[i].pc = "awaitGeocoding"
    /\ Answer(i, "geocoding")
    /\ UNCHANGED <<unit, args, result, variant, mounted, searchCity>>
    /\ \/ Catch(Error(NetworkErrorText)) /\ Ends(i, "error")
       \/ /\ cycles' = [cycles EXCEPT ![i].pc = "awaitGeocodingJson",
                                      ![i].ok1 = TRUE]
          /\ UNCHANGED view
       \/ \E s \in Statuses :
            /\ cycles' = [cycles EXCEPT ![i].pc = "awaitGeocodingJson",
                                        ![i].status = s]
            /\ UNCHANGED view

\* GeocodingResponse fetching once more after a rejected fetch.
GeocodingResponseRetry(i) ==
    /\ variant = "hourly"
    /\ cycles[i].pc = "awaitGeocoding"
    /\ UNCHANGED <<unit, args, result, variant, mounted, searchCity>>
    /\ \/ IF cycles[i].issued1 < 2
          THEN /\ cycles' = [cycles EXCEPT ![i].issued1 = @ + 1]
               /\ UNCHANGED inflight
               /\ issued' = issued + 1
               /\ UNCHANGED view
          ELSE Catch(Error(NetworkErrorText)) /\ Ends(i, "error") /\ Answer(i, "geocoding")
       \/ /\ cycles' = [cycles EXCEPT ![i].pc = "awaitGeocodingJson",
                                      ![i].ok1 = TRUE]
          /\ Answer(i, "geocoding")
          /\ UNCHANGED view
       \/ \E s \in Statuses :
            /\ cycles' = [cycles EXCEPT ![i].pc = "awaitGeocodingText",
                                        ![i].status = s]
            /\ Answer(i, "geocoding")
            /\ UNCHANGED view

\* Lines 61-63: the geocoding fetch settles.
GeocodingResponse(i) ==
    /\ variant = "hourly"
    /\ cycles[i].pc = "awaitGeocoding"
    /\ Answer(i, "geocoding")
    /\ UNCHANGED <<unit, args, result, variant, mounted, searchCity>>
    /\ \/ Catch(Error(NetworkErrorText)) /\ Ends(i, "error")
       \/ /\ cycles' = [cycles EXCEPT ![i].pc = "awaitGeocodingJson",
                                      ![i].ok1 = TRUE]
          /\ UNCHANGED view
       \/ \E s \in Statuses :
            /\ cycles' = [cycles EXCEPT ![i].pc = "awaitGeocodingText",
                                        ![i].status = s]
            /\ UNCHANGED view

\* A read of the body that never settles.
GeocodingTextPending(i) ==
    /\ variant = "hourly"
    /\ cycles[i].pc = "awaitGeocodingText"
    /\ UNCHANGED vars

\* Lines 64-66: the error body was read (or could not be); throw.
GeocodingText(i) ==
    /\ variant = "hourly"
    /\ cycles[i].pc = "awaitGeocodingText"
    /\ UNCHANGED <<unit, args, result, variant, mounted, searchCity>>
    /\ NoFetch
    /\ \/ Catch(Error(CityNotFoundStatus(cycles[i].status))) /\ Ends(i, "error")
       \/ Catch(Error(NetworkErrorText)) /\ Ends(i, "error")

\* GeocodingJson without the check of the result list: results[0] is
\* undefined and reading its latitude throws.
GeocodingJsonNoCheck(i) ==
    /\ variant = "hourly"
    /\ cycles[i].pc = "awaitGeocodingJson"
    /\ UNCHANGED <<unit, args, result, variant, mounted, searchCity>>
    /\ \/ Catch(Error(SyntaxErrorText)) /\ Ends(i, "error") /\ NoFetch
       \/ Catch(Error(TypeErrorText)) /\ Ends(i, "error") /\ NoFetch
       \/ \E geocodingData \in GeocodingData(cycles[i].city) :
            IF NoResults(geocodingData)
            THEN /\ Catch(Error(TypeErrorText))
                 /\ cycles' = [cycles EXCEPT ![i].pc = "done",
                                             ![i].outcome = "error",
                                             ![i].found = 0]
                 /\ NoFetch
            ELSE /\ cycles' = [cycles EXCEPT ![i].pc = "awaitWeather",
                                             ![i].found =
                                                 Len(geocodingData.results),
                                             ![i].location =
                                                 geocodingData.results[1],
                                             ![i].issued2 = @ + 1]
                 /\ Issue(i, "weather")
                 /\ UNCHANGED view

\* A continuation that geocodes the search text as it is by then.
GeocodingJsonCurrentText(i) ==
    /\ variant = "hourly"
    /\ cycles[i].pc = "awaitGeocodingJson"
    /\ UNCHANGED <<unit, args, result, variant, mounted, searchCity>>
    /\ \/ Catch(Error(SyntaxErrorText)) /\ Ends(i, "error") /\ NoFetch
       \/ Catch(Error(TypeErrorText)) /\ Ends(i, "error") /\ NoFetch
       \/ \E geocodingData \in GeocodingData(searchCity) :
            IF NoResults(geocodingData)
            THEN /\ Catch(Error(CityNotFoundInResults))
                 /\ cycles' = [cycles EXCEPT ![i].pc = "done",
                                             ![i].outcome = "error",
                                             ![i].found = 0]
                 /\ NoFetch
            ELSE /\ cycles' = [cycles EXCEPT ![i].pc = "awaitWeather",
                                             ![i].found =
                                                 Len(geocodingData.results),
                                             ![i].location =
                                                 geocodingData.results[1],
                                             ![i].issued2 = @ + 1]
                 /\ Issue(i, "weather")
                 /\ UNCHANGED view

\* Lines 69-81: the body is parsed (json() rejects on a body that is no JSON,
\* reading results of a null body throws), the result list checked, the
\* weather request issued for results[0].
GeocodingJson(i) ==
    /\ variant = "hourly"
    /\ cycles[i].pc = "awaitGeocodingJson"
    /\ UNCHANGED <<unit, args, result, variant, mounted, searchCity>>
    /\ \/ Catch(Error(SyntaxErrorText)) /\ Ends(i, "error") /\ NoFetch
       \/ Catch(Error(TypeErrorText)) /\ Ends(i, "error") /\ NoFetch
       \/ \E geocodingData \in GeocodingData(cycles[i].city) :
            IF NoResults(geocodingData)
            THEN /\ Catch(Error(CityNotFoundInResults))
                 /\ cycles' = [cycles EXCEPT ![i].pc = "done",
                                             ![i].outcome = "error",
                                             ![i].found = 0]
                 /\ NoFetch
            ELSE /\ cycles' = [cycles EXCEPT ![i].pc = "awaitWeather",
                                             ![i].found =
                                                 Len(geocodingData.results),
                                             ![i].location =
                                                 geocodingData.results[1],
                                             ![i].issued2 = @ + 1]
                 /\ Issue(i, "weather")
                 /\ UNCHANGED view

\* Lines 81-83: the weather fetch settles.
WeatherResponse(i) ==
    /\ variant = "hourly"
    /\ cycles[i].pc = "awaitWeather"
    /\ Answer(i, "weather")
    /\ UNCHANGED <<unit, args, result, variant, mounted, searchCity>>
    /\ \/ Catch(Error(NetworkErrorText)) /\ Ends(i, "error")
       \/ Step(i, "awaitWeatherJson")
       \/ \E s \in Statuses :
            /\ cycles' = [cycles EXCEPT ![i].pc = "awaitWeatherText",
                                        ![i].status = s]
            /\ UNCHANGED view

\* Lines 84-86.
WeatherText(i) ==
    /\ variant = "hourly"
    /\ cycles[i].pc = "awaitWeatherText"
    /\ UNCHANGED <<unit, args, result, variant, mounted, searchCity>>
    /\ NoFetch
    /\ \/ Catch(Error(FailedWeatherStatus(cycles[i].status))) /\ Ends(i, "error")
       \/ Catch(Error(NetworkErrorText)) /\ Ends(i, "error")

\* Lines 125-142 and 147-149: setWeather, setLastUpdated, finally.  The
\* snapshot is a fresh object of this cycle, named after the location found;
\* the time written to lastUpdated is the moment this cycle completes.
Success(i) ==
    /\ weather' = MapWeather(cycles[i].location,
                             WeatherData(cycles[i].location), i)
    /\ lastUpdated' = i
    /\ loading' = FALSE
    /\ UNCHANGED <<forecast, error>>

\* Lines 89-149: the body is parsed and mapped.  A body that is no JSON makes
\* json() reject; one without hourly or daily makes the mapping throw.
WeatherJson(i) ==
    /\ variant = "hourly"
    /\ cycles[i].pc = "awaitWeatherJson"
    /\ UNCHANGED <<unit, args, result, variant, mounted, searchCity>>
    /\ NoFetch
    /\ \/ Catch(Error(SyntaxErrorText)) /\ Ends(i, "error")
       \/ Catch(Error(TypeErrorText)) /\ Ends(i, "error")
       \/ Success(i) /\ Ends(i, "ok")

----------------------------------------------------------------------------
\* part_000, second App ("geo"): fetchWeather at lines 371-429.

\* Lines 384 and 389.
CityNotFound == "City not found"
\* Line 400.
FailedWeather == "Failed to fetch weather data"

\* Lines 371-381.
FetchWeatherGeo(city) ==
    IF city = ""
    THEN /\ cycles' = Append(cycles, Skipped(city))
         /\ NoFetch
         /\ UNCHANGED view
    ELSE /\ loading' = TRUE
         /\ error' = ""
         /\ cycles' = Append(cycles, NewCycle(city, "awaitGeocoding"))
         /\ Issue(Len(cycles) + 1, "geocoding")
         /\ UNCHANGED <<weather, forecast, lastUpdated>>

\* Lines 423-428.
CatchGeo(err) ==
    /\ error' = IF err.isError THEN err.message ELSE AnErrorOccurred
    /\ weather' = Null
    /\ loading' = FALSE
    /\ UNCHANGED <<forecast, lastUpdated>>

\* Lines 379-385: the fetch rejects, or answers ok, or answers a non-2xx
\* status (which is not read).
GeocodingResponseGeo(i) ==
    /\ variant = "geo"
    /\ cycles[i].pc = "awaitGeocoding"
    /\ Answer(i, "geocoding")
    /\ UNCHANGED <<unit, args, result, variant, mounted, searchCity>>
    /\ \/ CatchGeo(Error(NetworkErrorText)) /\ Ends(i, "error")
       \/ /\ cycles' = [cycles EXCEPT ![i].pc = "awaitGeocodingJson",
                                      ![i].ok1 = TRUE]
          /\ UNCHANGED view
       \/ CatchGeo(Error(CityNotFound)) /\ Ends(i, "error")

\* Lines 387-397.
GeocodingJsonGeo(i) ==
    /\ variant = "geo"
    /\ cycles[i].pc = "awaitGeocodingJson"
    /\ UNCHANGED <<unit, args, result, variant, mounted, searchCity>>
    /\ \/ CatchGeo(Error(SyntaxErrorText)) /\ Ends(i, "error") /\ NoFetch
       \/ CatchGeo(Error(TypeErrorText)) /\ Ends(i, "error") /\ NoFetch
       \/ \E geocodingData \in GeocodingData(cycles[i].city) :
            IF NoResults(geocodingData)
            THEN /\ CatchGeo(Error(CityNotFound))
                 /\ cycles' = [cycles EXCEPT ![i].pc = "done",
                                             ![i].outcome = "error",
                                             ![i].found = 0]
                 /\ NoFetch
            ELSE /\ cycles' = [cycles EXCEPT ![i].pc = "awaitWeather",
                                             ![i].found =
                                                 Len(geocodingData.results),
                                             ![i].location =
                                                 geocodingData.results[1],
                                             ![i].issued2 = @ + 1]
                 /\ Issue(i, "weather")
                 /\ UNCHANGED view

\* Lines 395-401.
WeatherResponseGeo(i) ==
    /\ variant = "geo"
    /\ cycles[i].pc = "awaitWeather"
    /\ Answer(i, "weather")
    /\ UNCHANGED <<unit, args, result, variant, mounted, searchCity>>
    /\ \/ CatchGeo(Error(NetworkErrorText)) /\ Ends(i, "error")
       \/ Step(i, "awaitWeatherJson")
       \/ CatchGeo(Error(FailedWeather)) /\ Ends(i, "error")

\* Lines 405-422 and 426-428.
SuccessGeo(i) ==
    /\ weather' = MapWeatherGeo(cycles[i].location,
                                WeatherData(cycles[i].location), i)
    /\ lastUpdated' = i
    /\ loading' = FALSE
    /\ UNCHANGED <<forecast, error>>

\* Lines 403-428.
WeatherJsonGeo(i) ==
    /\ variant = "geo"
    /\ cycles[i].pc = "awaitWeatherJson"
    /\ UNCHANGED <<unit, args, result, variant, mounted, searchCity>>
    /\ NoFetch
    /\ \/ CatchGeo(Error(SyntaxErrorText)) /\ Ends(i, "error")
       \/ CatchGeo(Error(TypeErrorText)) /\ Ends(i, "error")
       \/ SuccessGeo(i) /\ Ends(i, "ok")

----------------------------------------------------------------------------
\* part_000, first App ("single"): fetchWeather at lines 42-104.

\* Line 100.
PleaseTryAgain == "Failed to fetch weather data. Please try again."

\* Lines 42-48: no guard on the argument.
FetchWeatherSingle(city) ==
    /\ loading' = TRUE
    /\ error' = ""
    /\ cycles' = Append(cycles, NewCycle(city, "awaitResponse"))
    /\ Issue(Len(cycles) + 1, "weather")
    /\ UNCHANGED <<weather, forecast, lastUpdated>>

\* Lines 99-103: the catch sets the message only.
CatchSingle ==
    /\ error' = PleaseTryAgain
    /\ loading' = FALSE
    /\ UNCHANGED <<weather, forecast, lastUpdated>>

\* Lines 46-52.  The provider does not answer a request for q= with a weather
\* record.
ResponseSingle(i) ==
    /\ variant = "single"
    /\ cycles[i].pc = "awaitResponse"
    /\ Answer(i, "weather")
    /\ UNCHANGED <<unit, args, result, variant, mounted, searchCity>>
    /\ \/ CatchSingle /\ Ends(i, "error")
       \/ /\ cycles[i].city # ""
          /\ cycles' = [cycles EXCEPT ![i].pc = "awaitData", ![i].ok1 = TRUE]
          /\ UNCHANGED view

\* Lines 54-78: json(), setWeather, setLastUpdated, the forecast fetch.
DataSingle(i) ==
    /\ variant = "single"
    /\ cycles[i].pc = "awaitData"
    /\ UNCHANGED <<unit, args, result, variant, mounted, searchCity>>
    /\ \/ CatchSingle /\ Ends(i, "error") /\ NoFetch
       \/ /\ weather' = MapWeatherSingle(cycles[i].city,
                                         WeatherDataSingle(cycles[i].city), i)
          /\ lastUpdated' = i
          /\ cycles' = [cycles EXCEPT ![i].pc = "awaitForecastResponse",
                                      ![i].location = cycles[i].city,
                                      ![i].issued2 = @ + 1]
          /\ Issue(i, "forecast")
          /\ UNCHANGED <<forecast, loading, error>>

\* Lines 76-82.
ForecastResponseSingle(i) ==
    /\ variant = "single"
    /\ cycles[i].pc = "awaitForecastResponse"
    /\ Answer(i, "forecast")
    /\ UNCHANGED <<unit, args, result, variant, mounted, searchCity>>
    /\ \/ CatchSingle /\ Ends(i, "error")
       \/ Step(i, "awaitForecastData")

\* Lines 84-103: json(), the daily list, setForecast, finally.
ForecastDataSingle(i) ==
    /\ variant = "single"
    /\ cycles[i].pc = "awaitForecastData"
    /\ UNCHANGED <<unit, args, result, variant, mounted, searchCity>>
    /\ NoFetch
    /\ \/ CatchSingle /\ Ends(i, "error")
       \/ /\ forecast' = <<[city |-> cycles[i].city, cycle |-> i]>>
          /\ loading' = FALSE
          /\ Ends(i, "ok")
          /\ UNCHANGED <<weather, error, lastUpdated>>

----------------------------------------------------------------------------
\* The event handlers.

\* part_001 lines 166-168; part_000 lines 106-108 and 447-451 (the latter
\* behind if (searchCity)).
Mount ==
    /\ ~mounted
    /\ mounted' = TRUE
    /\ UNCHANGED <<unit, args, result, variant, searchCity>>
    /\ CASE variant = "hourly" -> FetchWeather(searchCity)
         [] variant = "geo" ->
              IF searchCity # ""
              THEN FetchWeatherGeo(searchCity)
              ELSE UNCHANGED <<weather, forecast, loading, error, lastUpdated,
                               cycles, inflight, issued>>
         [] variant = "single" -> FetchWeatherSingle(searchCity)

\* handleSubmit: part_001 lines 170-173; part_000 lines 110-113 and 453-456.
HandleSubmit ==
    /\ mounted
    /\ Len(cycles) < MaxCalls
    /\ UNCHANGED <<unit, args, result, variant, mounted, searchCity>>
    /\ CASE variant = "hourly" -> FetchWeather(searchCity)
         [] variant = "geo" -> FetchWeatherGeo(searchCity)
         [] variant = "single" -> FetchWeatherSingle(searchCity)

\* onChange={(e) => setSearchCity(e.target.value)}: part_001 line 190.
SetSearchCity(text) ==
    /\ mounted
    /\ text # searchCity
    /\ searchCity' = text
    /\ UNCHANGED <<unit, args, result, variant, mounted, weather, forecast, loading, error,
                   lastUpdated, cycles, inflight, issued>>

Next ==
    \/ Mount
    \/ HandleSubmit
    \/ \E text \in Texts : SetSearchCity(text)
    \/ \E i \in DOMAIN cycles : GeocodingResponse(i)
    \/ \E i \in DOMAIN cycles : GeocodingText(i)
    \/ \E i \in DOMAIN cycles : GeocodingJson(i)
    \/ \E i \in DOMAIN cycles : WeatherResponse(i)
    \/ \E i \in DOMAIN cycles : WeatherText(i)
    \/ \E i \in DOMAIN cycles : WeatherJson(i)
    \/ \E i \in DOMAIN cycles : GeocodingResponseGeo(i)
    \/ \E i \in DOMAIN cycles : GeocodingJsonGeo(i)
    \/ \E i \in DOMAIN cycles : WeatherResponseGeo(i)
    \/ \E i \in DOMAIN cycles : WeatherJsonGeo(i)
    \/ \E i \in DOMAIN cycles : ResponseSingle(i)
    \/ \E i \in DOMAIN cycles : DataSingle(i)
    \/ \E i \in DOMAIN cycles : ForecastResponseSingle(i)
    \/ \E i \in DOMAIN cycles : ForecastDataSingle(i)

Spec == Init /\ [][Next]_vars

\* The steps of call i after its first await.
Continue(i) ==
    /\ i \in DOMAIN cycles
    /\ \/ GeocodingResponse(i) \/ GeocodingText(i) \/ GeocodingJson(i)
       \/ WeatherResponse(i) \/ WeatherText(i) \/ WeatherJson(i)
       \/ GeocodingResponseGeo(i) \/ GeocodingJsonGeo(i)
       \/ WeatherResponseGeo(i) \/ WeatherJsonGeo(i)
       \/ ResponseSingle(i) \/ DataSingle(i)
       \/ ForecastResponseSingle(i) \/ ForecastDataSingle(i)

\* Every promise a call awaits settles: fetch resolves or rejects, and so do
\* text() and json().  A call that can continue stays able to until it does,
\* so weak fairness says it does.
SpecFair == Spec /\ \A i \in 1 .. MaxCalls : WF_vars(Continue(i))

----------------------------------------------------------------------------
\* The unit selector.

\* A selector that converts the stored temperature as well.
SetUnitConverting(u) ==
    /\ mounted
    /\ u # unit
    /\ unit' = u
    /\ weather' = IF weather = Null THEN Null
                  ELSE [weather EXCEPT !.temp = convertTempTo(@, u)]
    /\ UNCHANGED <<variant, mounted, searchCity, forecast, loading, error,
                   lastUpdated, cycles, inflight, issued, args, result>>

\* onChange={() => setUnit('C')} and setUnit('F'): part_001 lines 211 and
\* 221.  A radio button fires onChange when it becomes the one selected.
SetUnit(u) ==
    /\ mounted
    /\ u # unit
    /\ unit' = u
    /\ UNCHANGED <<app, args, result>>

\* The temperatures the render shows for the stored snapshot: part_001 lines
\* 259-275, part_000 lines 238-255 and 581-598.
Shown ==
    LET show(temp) == IF variant = "hourly" THEN convertTemp(temp)
                      ELSE convertTempTo(temp, unit)
    IN  [temp |-> show(weather.temp), feelsLike |-> show(weather.feelsLike),
         tempMin |-> show(weather.tempMin), tempMax |-> show(weather.tempMax)]

NextUnit ==
    \/ Next
    \/ \E u \in Units : SetUnit(u)

SpecUnit == Init /\ [][NextUnit]_vars

----------------------------------------------------------------------------
\* The functions of the program taken on their own: the arguments are drawn
\* in the initial state and one step applies the function to them.

Temps == -MaxTemp .. MaxTemp

ConvertTempArgs == [fn : {"convertTemp"}, temp : Temps]

Applies(fn) ==
    /\ args # None
    /\ args.fn = fn
    /\ result = None
    /\ UNCHANGED <<app, unit, args>>

Applied(fn) ==
    /\ args # None
    /\ args.fn = fn
    /\ result # None

\* convertTemp(weather.temp) and the like in the render, with the unit that
\* is selected: part_001 lines 259-275, part_000 lines 238-255 and 581-598.
ApplyConvertTemp ==
    /\ Applies("convertTemp")
    /\ result' = <<IF variant = "hourly" THEN convertTemp(args.temp)
                   ELSE convertTempTo(args.temp, unit)>>

\* Temperatures (5.0 to 35.0 and two far ones) and humidities (78.0 to 82.0
\* and the two ends of the scale) around the tests of getWeatherDescription,
\* in tenths.
DescriptionTemps == (50 .. 350) \cup {-400, 500}
DescriptionHumidities == (780 .. 820) \cup {0, 1000}

DescriptionArgs ==
    [fn : {"getWeatherDescription"}, temp : DescriptionTemps,
     humidity : DescriptionHumidities]

\* getWeatherDescription(...) and, in part_000, getIconCode(...) on the same
\* two numbers: part_001 line 135, part_000 lines 415-416.
ApplyDescription ==
    /\ Applies("getWeatherDescription")
    /\ result' =
         <<IF variant = "hourly"
           THEN [description |->
                    getWeatherDescription(args.temp, args.humidity)]
           ELSE [description |->
                    getWeatherDescriptionGeo(args.temp, args.humidity),
                 icon |-> getIconCode(args.temp, args.humidity)]>>

\* Hourly times about midnight, and the series of at most MaxHours of them,
\* in any order.
Hours == 22 .. 25
TimeSeries == UNION {[1 .. n -> Hours] : n \in 0 .. MaxHours}

\* The hourly block with these times: temperature and apparent temperature
\* of entry k in tenths, different at every index.
Hourly(time) ==
    [time |-> time,
     temperature_2m |-> [k \in DOMAIN time |-> 37 * k - 62],
     apparent_temperature |-> [k \in DOMAIN time |-> 37 * k - 95]]

HourlyArgs == [fn : {"hourlyData"}, time : TimeSeries, now : Hours]

\* const now = new Date(); const hourlyData = ...: part_001 lines 93-115.
ApplyHourlyData ==
    /\ Applies("hourlyData")
    /\ result' = <<HourlyData(Hourly(args.time), args.now)>>

\* The temperature fields of a snapshot, and the weather bodies that differ
\* from Toronto's in the number one of them is mapped from.
TempFields == {"temp", "feelsLike", "tempMin", "tempMax"}
Tenths == -MaxTenths .. MaxTenths

MapWeatherArgs == [fn : {"mapWeather"}, field : TempFields, value : Tenths]

BodyWith(field, value) ==
    LET data == WeatherData("Toronto")
    IN  CASE field = "temp" -> [data EXCEPT !.temperature_2m = value]
          [] field = "feelsLike" -> [data EXCEPT !.apparent_temperature = value]
          [] field = "tempMin" -> [data EXCEPT !.temperature_2m_min = value]
          [] field = "tempMax" -> [data EXCEPT !.temperature_2m_max = value]

BodySingleWith(field, value) ==
    LET data == WeatherDataSingle("Toronto")
    IN  CASE field = "temp" -> [data EXCEPT !.temp = value]
          [] field = "feelsLike" -> [data EXCEPT !.feels_like = value]
          [] field = "tempMin" -> [data EXCEPT !.temp_min = value]
          [] field = "tempMax" -> [data EXCEPT !.temp_max = value]

\* The object handed to setWeather: part_001 lines 125-140, part_000 lines
\* 56-71 and 405-420.
ApplyMapWeather ==
    /\ Applies("mapWeather")
    /\ result' =
         <<CASE variant = "hourly" ->
                  MapWeather("Toronto", BodyWith(args.field, args.value), 0)
             [] variant = "geo" ->
                  MapWeatherGeo("Toronto", BodyWith(args.field, args.value), 0)
             [] variant = "single" ->
                  MapWeatherSingle("Toronto",
                                   BodySingleWith(args.field, args.value), 0)>>

\* What the two environments can hold: nothing, an empty value, a key.
RuntimeKeys == {None, <<"">>, <<"runtime-key">>}
BuildTimeKeys == {None, <<"">>, <<"build-time-key">>}

ApiKeyArgs ==
    [fn : {"getApiKey"},
     env : {None} \cup {<<value>> : value \in RuntimeKeys},
     buildTimeKey : BuildTimeKeys]

\* weatherApiKey: getApiKey(): config.ts line 18.
ApplyGetApiKey ==
    /\ Applies("getApiKey")
    /\ result' = <<getApiKey(args.env, args.buildTimeKey)>>

\* The weather bodies that differ from Toronto's in the current temperature
\* and humidity, both about the tests of getWeatherDescription.
DescribedArgs ==
    [fn : {"describeWeather"}, temp : DescriptionTemps,
     humidity : DescriptionHumidities]

\* The object handed to setWeather and, in part_001, a day of its forecast
\* list that has the same two numbers as maxima: part_001 lines 118-140,
\* part_000 lines 405-420.
ApplyDescribeWeather ==
    /\ Applies("describeWeather")
    /\ LET data == [WeatherData("Toronto") EXCEPT
                        !.temperature_2m = args.temp,
                        !.relative_humidity_2m = args.humidity]
       IN  result' =
             IF variant = "hourly"
             THEN <<MapWeather("Toronto", data, 0),
                    MapForecastDay(args.temp, args.humidity)>>
             ELSE <<MapWeatherGeo("Toronto", data, 0)>>

InitFn ==
    /\ Constructed
    /\ result = None
    /\ \/ args \in ConvertTempArgs /\ unit \in Units
       \/ args \in DescriptionArgs /\ unit = "C" /\ variant \in TwoProvider
       \/ args \in HourlyArgs /\ unit = "C" /\ variant = "hourly"
       \/ args \in MapWeatherArgs /\ unit = "C"
       \/ args \in ApiKeyArgs /\ unit = "C"
       \/ args \in DescribedArgs /\ unit = "C" /\ variant \in TwoProvider

NextFn ==
    \/ ApplyConvertTemp
    \/ ApplyDescription
    \/ ApplyHourlyData
    \/ ApplyMapWeather
    \/ ApplyGetApiKey
    \/ ApplyDescribeWeather

SpecFn == InitFn /\ [][NextFn]_vars

----------------------------------------------------------------------------
\* Properties.

\* Cycle i returns in this step with the given outcome.
EndsNow(i, outcome) ==
    /\ cycles[i].pc # "done"
    /\ cycles'[i].pc = "done"
    /\ cycles'[i].outcome = outcome

\* A fetchWeather call is made in this step.
Called == Len(cycles') = Len(cycles) + 1

\* C1: in the two-provider view-models, the step in which a cycle ends in error
\* (a rejected fetch, a non-2xx status, an empty result list, a thrown
\* exception) leaves the snapshot null and the error string non-empty.
C1_FailureClearsSnapshot ==
    [][\A i \in DOMAIN cycles :
          (variant \in TwoProvider /\ EndsNow(i, "error"))
              => (weather' = Null /\ error' # "")]_vars

\* A cycle that started after an earlier one had stored its snapshot has
\* failed, and the snapshot is gone.
C1_Witness ==
    /\ variant = "hourly"
    /\ \E i, j \in DOMAIN cycles :
         /\ i < j
         /\ cycles[i].outcome = "ok"
         /\ cycles[j].outcome = "error"
         /\ cycles[j].startedWhile = {}
    /\ weather = Null
    /\ error # ""

\* C2: in the single-provider view-model, once a cycle has ended in error
\* neither the snapshot nor the forecast list of an earlier cycle is stored.
C2_SingleFailureClears ==
    [][\A i \in DOMAIN cycles :
          (variant = "single" /\ EndsNow(i, "error"))
              => /\ (weather' # Null => weather'.cycle >= i)
                 /\ (forecast' # << >> => forecast'[1].cycle >= i)]_vars

\* C3: in the two-provider view-models, a cycle whose geocoding response was
\* ok with an absent or empty result list ends in error with a city-not-found
\* message in that step, stores no snapshot and issues no weather request.
C3_EmptyResults ==
    /\ [][\A i \in DOMAIN cycles :
            (variant \in TwoProvider /\ cycles[i].found # 0 /\ cycles'[i].found = 0)
                => /\ EndsNow(i, "error")
                   /\ error' \in {CityNotFoundInResults, CityNotFound}
                   /\ weather' = Null
                   /\ inflight' = inflight
                   /\ issued' = issued]_vars
    /\ [](\A i \in DOMAIN cycles :
            (variant \in TwoProvider /\ cycles[i].found = 0)
                => /\ cycles[i].ok1
                   /\ cycles[i].pc = "done"
                   /\ cycles[i].outcome = "error"
                   /\ cycles[i].issued2 = 0
                   /\ <<i, "weather">> \notin inflight
                   /\ (weather # Null => weather.cycle # i))

C3_Witness ==
    /\ variant = "hourly"
    /\ \E i \in DOMAIN cycles : cycles[i].found = 0 /\ cycles[i].ok1
    /\ error = CityNotFoundInResults

\* C4: a fetchWeather call leaves every earlier cycle and every request in
\* flight as it was (a new submission cancels nothing), so cycles overlap and
\* C4_Witness is reachable.
C4_NoCancel ==
    [][Called => /\ \A i \in DOMAIN cycles : cycles'[i] = cycles[i]
                 /\ inflight \subseteq inflight']_vars

\* The stale overwrite: b was submitted for another city while a was in
\* flight, both have stored their snapshot, and the one displayed is a's
\* although b is the latest submission.
C4_Witness ==
    /\ variant = "hourly"
    /\ Running = {}
    /\ \E a, b \in DOMAIN cycles :
         /\ a < b
         /\ b = Len(cycles)
         /\ a \in cycles[b].startedWhile
         /\ cycles[a].city # cycles[b].city
         /\ cycles[a].outcome = "ok"
         /\ cycles[b].outcome = "ok"
         /\ weather # Null
         /\ weather.city = cycles[a].city
         /\ weather.cycle = a
         /\ searchCity = cycles[b].city

\* C5: in the two-provider view-models an error banner and a snapshot are
\* never present together.
C5_ErrorExcludesSnapshot ==
    variant \in TwoProvider => (error # "" => weather = Null)

\* No cycle was started while another was in flight.
NoOverlap == \A i \in DOMAIN cycles : cycles[i].startedWhile = {}

Idle == ~loading /\ weather = Null /\ error = ""
Loaded == weather # Null /\ error = ""
Failed == weather = Null /\ error # ""

\* The calls that passed the guard.
Started == {i \in DOMAIN cycles : cycles[i].outcome # "skipped"}

\* C6: while cycles do not overlap, the two-provider view-models are idle
\* before the first cycle, loading with no error while a cycle is in flight,
\* and not loading and either Loaded or Failed once it has returned; a call
\* with a non-empty city enters loading from any of these.
C6_StateMachine ==
    /\ []((variant \in TwoProvider /\ NoOverlap) =>
            /\ (Started = {} => Idle)
            /\ (Running # {} => loading /\ error = "")
            /\ (Running = {} /\ Started # {} => ~loading /\ (Loaded \/ Failed)))
    /\ [][(variant \in TwoProvider /\ NoOverlap' /\ Called /\ searchCity # "")
            => /\ loading' /\ error' = ""
               /\ Running' = {Len(cycles')}]_vars

\* Two cycles one after the other: the first loaded, the second, entered from
\* Loaded, failed.
C6_Witness ==
    /\ variant = "hourly"
    /\ NoOverlap
    /\ Len(cycles) = 2
    /\ cycles[1].outcome = "ok"
    /\ cycles[2].outcome = "error"
    /\ ~loading
    /\ Failed

\* C7: in the two-provider view-models a cycle has issued its weather request
\* only after its geocoding response arrived ok with at least one result, and
\* its two requests are never in flight together.
C7_Sequential ==
    variant \in TwoProvider =>
        \A i \in DOMAIN cycles :
            /\ ~({<<i, "geocoding">>, <<i, "weather">>} \subseteq inflight)
            /\ (cycles[i].issued2 > 0 \/ <<i, "weather">> \in inflight)
                  => /\ cycles[i].ok1
                     /\ cycles[i].found >= 1
                     /\ <<i, "geocoding">> \notin inflight

C7_Witness ==
    /\ variant = "hourly"
    /\ \E i \in DOMAIN cycles :
         /\ <<i, "weather">> \in inflight
         /\ cycles[i].issued2 = 1

\* C8: in the single-provider view-model, whenever no cycle is in flight the
\* stored snapshot and the stored forecast list come from the same cycle (or
\* neither is stored).
C8_SameCycle ==
    (variant = "single" /\ Running = {}) =>
        \/ weather = Null /\ forecast = << >>
        \/ /\ weather # Null
           /\ forecast # << >>
           /\ weather.cycle = forecast[1].cycle

\* C9: in the two-provider view-models a fetchWeather call with the empty
\* string issues no request and leaves loading, error, the snapshot and
\* lastUpdated unchanged.
C9_EmptySkipped ==
    [][(variant \in TwoProvider /\ Called /\ searchCity = "")
          => /\ UNCHANGED <<weather, forecast, loading, error, lastUpdated>>
             /\ UNCHANGED <<inflight, issued>>
             /\ Running' = Running]_vars

\* An empty submit was made while the banner of a failed cycle was shown, and
\* the banner is still there.
C9_Witness ==
    /\ variant \in TwoProvider
    /\ \E i, j \in DOMAIN cycles :
         /\ j < i
         /\ cycles[i].outcome = "skipped"
         /\ cycles[j].outcome = "error"
         /\ cycles[i].startedWhile = {}
         /\ Started = {j}
    /\ error # ""

RECURSIVE SumIssued(_)
SumIssued(n) ==
    IF n = 0 THEN 0
    ELSE cycles[n].issued1 + cycles[n].issued2 + SumIssued(n - 1)

\* C10: a cycle issues at most one request at each of its two network steps,
\* every fetch() belongs to a cycle, so the number of requests is at most
\* twice the number of calls, and a cycle that has returned issues nothing
\* more.
C10_NoRetry ==
    /\ [](/\ \A i \in DOMAIN cycles : cycles[i].issued1 <= 1 /\ cycles[i].issued2 <= 1
          /\ issued = SumIssued(Len(cycles))
          /\ issued <= 2 * Len(cycles))
    /\ [][/\ \A i \in DOMAIN cycles : cycles[i].pc = "done" => cycles'[i] = cycles[i]
          /\ issued' > issued => (Called \/ Running # {})
          /\ issued' <= issued + 1]_vars

\* A cycle has failed, nothing is in flight, and one request was made.
C10_Witness ==
    /\ variant = "hourly"
    /\ Len(cycles) = 1
    /\ cycles[1].outcome = "error"
    /\ issued = 1
    /\ inflight = {}

\* The text of an exception raised while a cycle is suspended at pc: a
\* rejected fetch or text(), a body json() cannot parse, a body without the
\* expected fields.
OwnText(pc) ==
    CASE pc \in {"awaitGeocoding", "awaitWeather",
                 "awaitGeocodingText", "awaitWeatherText"} -> {NetworkErrorText}
      [] pc \in {"awaitGeocodingJson", "awaitWeatherJson"} ->
           {SyntaxErrorText, TypeErrorText}

\* The messages the taxonomy allows when hourly cycle i ends in error in this
\* step, by the await it was suspended at; an exception raised there shows
\* the fallback message (generic) or its own text.
TaxonomyMessages(i, generic) ==
    LET pc == cycles[i].pc
        exceptionTexts == IF generic THEN {AnErrorOccurred} ELSE OwnText(pc)
    IN  CASE pc = "awaitGeocodingText" ->
               {CityNotFoundStatus(cycles[i].status)} \cup exceptionTexts
          [] pc = "awaitWeatherText" ->
               {FailedWeatherStatus(cycles[i].status)} \cup exceptionTexts
          [] pc = "awaitGeocodingJson" /\ cycles'[i].found = 0 ->
               {CityNotFoundInResults}
          [] OTHER -> exceptionTexts

\* C11 as stated: in part_001 a non-2xx status gives the status-annotated
\* message, an empty result list the city-not-found message, and every other
\* exception the generic fallback message.
C11_FallbackForExceptions ==
    [][\A i \in DOMAIN cycles :
          (variant = "hourly" /\ EndsNow(i, "error"))
              => error' \in TaxonomyMessages(i, TRUE)]_vars

\* C11 amended: ... and every other exception (an instance of Error) gives its
\* own message text.
C11_OwnTextForExceptions ==
    [][\A i \in DOMAIN cycles :
          (variant = "hourly" /\ EndsNow(i, "error"))
              => /\ error' \in TaxonomyMessages(i, FALSE)
                 /\ error' # AnErrorOccurred]_vars

\* A weather body without the expected fields made the mapping throw, and the
\* banner shows the TypeError's text.
C11_Witness ==
    /\ variant = "hourly"
    /\ \E i \in DOMAIN cycles :
         /\ cycles[i].outcome = "error"
         /\ cycles[i].issued2 = 1
    /\ error = TypeErrorText

\* C12: with unit F, convertTemp returns the integer nearest to C * 9/5 + 32
\* (in tenths: less than 5 away from 18 * C + 320, and no value is exactly 5
\* away), 0 giving 32 and 100 giving 212; with unit C it returns C itself.
C12_ConvertTemp ==
    Applied("convertTemp") =>
        LET C == args.temp
            F == result[1]
        IN  /\ unit = "C" => F = C
            /\ unit = "F" => /\ 10 * F - (18 * C + 320) < 5
                             /\ (18 * C + 320) - 10 * F < 5
            /\ (unit = "F" /\ C = 0) => F = 32
            /\ (unit = "F" /\ C = 100) => F = 212

\* A value whose Fahrenheit is not whole: -7 C is 19.4 F, shown as 19.
C12_Witness ==
    /\ Applied("convertTemp")
    /\ unit = "F"
    /\ args.temp = -7
    /\ result = <<19>>

\* The Celsius values the snapshot stores.
Stored ==
    [temp |-> weather.temp, feelsLike |-> weather.feelsLike,
     tempMin |-> weather.tempMin, tempMax |-> weather.tempMax]

\* C13: a step that changes the unit changes nothing else: the snapshot and
\* its Celsius values, error, loading and lastUpdated stay as they are, no
\* call is made and no request is issued.  So whenever the unit is C, after
\* C -> F -> C too, the values shown are the stored ones.
C13_ToggleOnlyUnit ==
    /\ [](unit = "C" /\ weather # Null => Shown = Stored)
    /\ [][unit' # unit => /\ UNCHANGED <<weather, error, loading, lastUpdated>>
                          /\ UNCHANGED <<cycles, inflight, issued>>
                          /\ UNCHANGED app]_vars

\* F selected over Toronto's snapshot while a later cycle is in flight: 21 C
\* is shown as 70 F and stays stored as 21.
C13_Witness ==
    /\ unit = "F"
    /\ weather # Null
    /\ loading
    /\ Stored.temp = 21
    /\ Shown.temp = 70

\* The label and the icon of a band in the version at hand.
BandLabel(band) ==
    IF variant = "hourly"
    THEN CASE band = "humid" -> "Overcast Clouds"
           [] band = "hot" -> "Clear Sky"
           [] band = "cold" -> "Few Clouds"
           [] band = "moderate" -> "Scattered Clouds"
    ELSE CASE band = "humid" -> "Humid"
           [] band = "hot" -> "Hot"
           [] band = "cold" -> "Cold"
           [] band = "moderate" -> "Moderate"

BandIcon(band) ==
    CASE band = "humid" -> "09d"
      [] band = "hot" -> "01d"
      [] band = "cold" -> "13d"
      [] band = "moderate" -> "02d"

\* C14: humidity above 80 gives the humid label whatever the temperature;
\* otherwise a temperature above 30 gives hot, below 10 cold, and 10 to 30
\* moderate.  Humidity 80, temperature 30 and temperature 10 themselves fall
\* in the branch below; where there is an icon it is the icon of the band of
\* the label.
C14_Bands ==
    Applied("getWeatherDescription") =>
        LET temp == args.temp
            humidity == args.humidity
            is(band) == /\ result[1].description = BandLabel(band)
                        /\ variant = "geo" => result[1].icon = BandIcon(band)
        IN  /\ humidity > 800 => is("humid")
            /\ (humidity <= 800 /\ temp > 300) => is("hot")
            /\ (humidity <= 800 /\ temp < 100) => is("cold")
            /\ (humidity <= 800 /\ temp >= 100 /\ temp <= 300) => is("moderate")
            /\ humidity = 800 => ~is("humid")
            /\ (humidity = 800 /\ temp \in {100, 300}) => is("moderate")

\* Both boundaries at once: 30.0 degrees at 80.0 percent is Moderate, 02d.
C14_Witness ==
    /\ Applied("getWeatherDescription")
    /\ variant = "geo"
    /\ args.temp = 300
    /\ args.humidity = 800
    /\ result = <<[description |-> "Moderate", icon |-> "02d"]>>

\* The hour a formatted time stands for.
HourOf(label) == (label.day - 1) * 24 + label.hour

\* C15: the hourly series has one entry for every source index whose time is
\* after now, an entry at now being left out; the entries are in the order of
\* their source indices, each with the formatted time and the rounded
\* temperature and apparent temperature of its own index; an ascending source
\* gives an ascending series.
C15_HourlyAfterNow ==
    Applied("hourlyData") =>
        LET hourly == Hourly(args.time)
            series == result[1]
            kept == {k \in DOMAIN hourly.time : hourly.time[k] > args.now}
            place(k) == Cardinality({m \in kept : m <= k})
        IN  /\ Len(series) = Cardinality(kept)
            /\ \A k \in kept :
                 /\ HourOf(series[place(k)].time) = hourly.time[k]
                 /\ 10 * series[place(k)].temp - hourly.temperature_2m[k]
                        \in -4 .. 5
                 /\ 10 * series[place(k)].feelsLike
                        - hourly.apparent_temperature[k] \in -4 .. 5
            /\ (\A k \in DOMAIN hourly.time : hourly.time[k] = args.now
                    => \A j \in DOMAIN series :
                          HourOf(series[j].time) # args.now)
            /\ (\A k, m \in DOMAIN hourly.time :
                    k < m => hourly.time[k] < hourly.time[m])
                 => \A j, l \in DOMAIN series :
                       j < l => HourOf(series[j].time) < HourOf(series[l].time)

\* Hours 22, 23, 24 read at 23: only the entry of hour 24 ("day 2, 00:00")
\* is kept, with the numbers of source index 3 (4.9 and 1.6 degrees).
C15_Witness ==
    /\ Applied("hourlyData")
    /\ args.time = <<22, 23, 24>>
    /\ args.now = 23
    /\ result = <<(<<[time |-> [day |-> 2, hour |-> 0], temp |-> 5,
                     feelsLike |-> 2]>>)>>

\* C16: the snapshot's temp, feelsLike, tempMin and tempMax are the integers
\* nearest to the numbers received (at most half a degree away, negative
\* numbers and exact halves included; of two equally near integers it is the
\* larger one), 21.4 being stored as 21.
C16_RoundedTemps ==
    Applied("mapWeather") =>
        LET stored == result[1]
            received == [f \in TempFields |->
                            IF f = args.field THEN args.value
                            ELSE CASE f = "temp" -> 214
                                   [] f = "feelsLike" -> 198
                                   [] f = "tempMin" -> 155
                                   [] f = "tempMax" -> 236]
            of(f) == CASE f = "temp" -> stored.temp
                       [] f = "feelsLike" -> stored.feelsLike
                       [] f = "tempMin" -> stored.tempMin
                       [] f = "tempMax" -> stored.tempMax
        IN  \A f \in TempFields :
               /\ 10 * of(f) - received[f] \in -4 .. 5
               /\ received[f] = 214 => of(f) = 21

\* A negative exact half: a minimum of -2.5 is stored as -2.
C16_Witness ==
    /\ Applied("mapWeather")
    /\ variant = "hourly"
    /\ args.field = "tempMin"
    /\ args.value = -25
    /\ result[1].tempMin = -2
    /\ result[1].temp = 21

\* A key is present where the value is a non-empty string.
RuntimeKey == IF args.env = None THEN None ELSE args.env[1]
Present(value) == value # None /\ value # <<"">>

\* C17 as stated: the runtime key is returned whenever present, the
\* build-time key otherwise; a warning is logged exactly when neither source
\* has a key, and the key returned is then undefined.
C17_UndefinedWhenWarned ==
    Applied("getApiKey") =>
        /\ Present(RuntimeKey) => result[1].key = RuntimeKey
        /\ (~Present(RuntimeKey) /\ Present(args.buildTimeKey))
               => result[1].key = args.buildTimeKey
        /\ result[1].warned
               <=> (~Present(RuntimeKey) /\ ~Present(args.buildTimeKey))
        /\ result[1].warned => result[1].key = None

\* C17 amended: as above, but the value returned with the warning is the
\* build-time value as it is: undefined, or the empty string where the
\* build-time variable is set to nothing.
C17_BuildTimeValueWhenWarned ==
    Applied("getApiKey") =>
        /\ Present(RuntimeKey) => result[1].key = RuntimeKey
        /\ (~Present(RuntimeKey) /\ Present(args.buildTimeKey))
               => result[1].key = args.buildTimeKey
        /\ result[1].warned
               <=> (~Present(RuntimeKey) /\ ~Present(args.buildTimeKey))
        /\ result[1].warned => /\ result[1].key = args.buildTimeKey
                               /\ result[1].key \in {None, <<"">>}

\* Both sources hold a key and the runtime one is returned, unwarned.
C17_Witness ==
    /\ Applied("getApiKey")
    /\ RuntimeKey = <<"runtime-key">>
    /\ args.buildTimeKey = <<"build-time-key">>
    /\ result = <<[key |-> <<"runtime-key">>, warned |-> FALSE]>>

\* C18: with every awaited promise settling, every call that has started a
\* cycle returns, and whenever no cycle is in flight loading is false.
C18_Terminates ==
    /\ \A i \in 1 .. MaxCalls :
          (i \in DOMAIN cycles /\ InFlight(i))
              ~> (i \in DOMAIN cycles /\ ~InFlight(i))
    /\ [](Running = {} => ~loading)

\* Two overlapping cycles have both returned, the later one in error, and
\* loading is false.
C18_Witness ==
    /\ Len(cycles) = 2
    /\ Running = {}
    /\ cycles[2].startedWhile = {1}
    /\ cycles[1].outcome = "ok"
    /\ cycles[2].outcome = "error"
    /\ ~loading

\* C19: while at least one cycle is in flight loading is true, overlapping
\* cycles included.
C19_LoadingCoversInFlight ==
    Running # {} => loading

\* C20: lastUpdated is never the time written by a cycle that ended in
\* error, in any of the three versions: a cycle that fails leaves it as it
\* was.
C20_ErrorKeepsLastUpdated ==
    \A i \in DOMAIN cycles :
        cycles[i].outcome = "error" => lastUpdated # i

\* C21: the description a two-provider snapshot stores is the band of the
\* temperature and humidity it stores (whole degrees and, in part_001, whole
\* percent; part_000 keeps the humidity as received), and so is the
\* description of a forecast day.
C21_DescriptionOfStored ==
    Applied("describeWeather") =>
        LET snapshot == result[1]
        IN  IF variant = "hourly"
            THEN /\ snapshot.description =
                        getWeatherDescription(10 * snapshot.temp,
                                              10 * snapshot.humidity)
                 /\ result[2].description =
                        getWeatherDescription(10 * result[2].temp,
                                              10 * result[2].humidity)
            ELSE /\ snapshot.description =
                        getWeatherDescriptionGeo(10 * snapshot.temp,
                                                 snapshot.humidity)
                 /\ snapshot.icon = getIconCode(10 * snapshot.temp,
                                                snapshot.humidity)

\* C22: a call takes the search text of the moment it is made and keeps it:
\* a step that changes the search text changes nothing else and issues
\* nothing; the city of a cycle never changes; its second request is made for
\* the location geocoded from that city, and the snapshot it stores is that
\* city's and its own.
C22_CityCaptured ==
    [][/\ searchCity' # searchCity
             => UNCHANGED <<weather, forecast, loading, error, lastUpdated,
                            cycles, inflight, issued, unit, mounted>>
       /\ Called => cycles'[Len(cycles')].city = searchCity
       /\ \A i \in DOMAIN cycles :
            /\ cycles'[i].city = cycles[i].city
            /\ cycles'[i].issued2 > cycles[i].issued2
                 => cycles'[i].location = cycles[i].city
            /\ (weather' # weather /\ weather' # Null /\ weather'.cycle = i)
                 => weather'.city = cycles[i].city]_vars

\* The text was edited while cycle i was in flight: i has geocoded the city
\* it was called with and awaits that city's weather, the input shows
\* another text.
C22_Witness ==
    /\ variant = "hourly"
    /\ \E i \in DOMAIN cycles :
         /\ InFlight(i)
         /\ <<i, "weather">> \in inflight
         /\ cycles[i].city # searchCity
         /\ cycles[i].location = cycles[i].city
         /\ searchCity # ""

====
